---- MODULE Spec2Model ----
(***************************************************************************)
(* Model of the trivia API backend (backend/flaskr/__init__.py): the       *)
(* route handlers over the Question and Category tables, the paginator     *)
(* and the quiz selector.                                                  *)
(*                                                                         *)
(* Texts are sequences of one-character strings.  A JSON body is a record  *)
(* whose DOMAIN is the set of keys present; body.get(k) is None exactly    *)
(* when k is not in DOMAIN body.  JSON null in a response is the record    *)
(* Null.                                                                   *)
(***************************************************************************)
EXTENDS Integers, Sequences, FiniteSets, TLC

VARIABLES questions, categories, nextId, assigned, deleted, threads, req, resp, client

vars == <<questions, categories, nextId, assigned, deleted, threads, req, resp, client>>

(***************************************************************************)
(* Bounds of the model.                                                    *)
(***************************************************************************)
MaxId == 2

MaxPage == 3

MaxPrev == 2

MaxN == 21

MaxQuizQ == 3

(***************************************************************************)
(* Program constant.                                                       *)
(***************************************************************************)
QUESTIONS_PER_PAGE == 10

(***************************************************************************)
(* Input domains.                                                          *)
(***************************************************************************)
\* the page query argument of GET /questions
PageArgs == {1, 2}

\* the page of the other handlers: the argument is absent
DefaultPage == {1}

CategoryArgs == {1, 2}

SearchTerms == {<<>>, <<"a">>, <<"a", "B">>, <<"_">>}

IdArgs == 1..MaxId

Null == [null |-> TRUE]

Min(a, b) == IF a < b THEN a ELSE b

Max(a, b) == IF a > b THEN a ELSE b

(***************************************************************************)
(* Python list helpers.                                                    *)
(***************************************************************************)
\* s[start:end] for a Python list s: negative indices count from the end,
\* both indices are clamped to [0, len(s)].
PySlice(s, start, end) ==
    LET n  == Len(s)
        lo == IF start < 0 THEN Max(start + n, 0) ELSE Min(start, n)
        hi == IF end < 0 THEN Max(end + n, 0) ELSE Min(end, n)
    IN  IF lo >= hi THEN <<>> ELSE [i \in 1..(hi - lo) |-> s[lo + i]]

\* [f(x) for x in s if p(x)], keeping the order of s
RECURSIVE SelectWhere(_, _)
SelectWhere(s, keep) ==
    IF s = <<>> THEN <<>>
    ELSE IF Head(s).id \in keep THEN <<Head(s)>> \o SelectWhere(Tail(s), keep)
         ELSE SelectWhere(Tail(s), keep)

Ids(s) == {s[i].id : i \in 1..Len(s)}

(***************************************************************************)
(* models.py (Question / Category): not part of the available source.      *)
(***************************************************************************)
\* Question.format()
format(q) ==
    [id |-> q.id, question |-> q.question, answer |-> q.answer,
     category |-> q.category, difficulty |-> q.difficulty]

\* Question.insert() with the lowest id no stored question has, so that the
\* id of a deleted question is given out again
insert_LowestFreeId(question, answer, category, difficulty) ==
    LET free == {i \in 1..(Len(questions) + 1) : i \notin Ids(questions)}
        id == CHOOSE i \in free : \A j \in free : i <= j
    IN  /\ nextId <= MaxId
        /\ questions' = Append(questions,
                               [id |-> id, question |-> question, answer |-> answer,
                                category |-> category, difficulty |-> difficulty])
        /\ nextId' = nextId + 1
        /\ assigned' = assigned \cup {id}

\* Question.insert(): the row is stored under the next value of the id
\* sequence, which gives out no value twice
insert(question, answer, category, difficulty) ==
    /\ nextId <= MaxId
    /\ questions' = Append(questions,
                           [id |-> nextId, question |-> question, answer |-> answer,
                            category |-> category, difficulty |-> difficulty])
    /\ nextId' = nextId + 1
    /\ assigned' = assigned \cup {nextId}

\* Question.delete(): the row with this id is removed
delete(table, id) == SelectWhere(table, Ids(table) \ {id})

(***************************************************************************)
(* Queries.                                                                *)
(***************************************************************************)
\* Question.query.all()
QueryAll(table) == table

\* Question.query.order_by(Question.id).all()
RECURSIVE OrderById(_)
OrderById(table) ==
    IF table = <<>> THEN <<>>
    ELSE LET m == CHOOSE i \in Ids(table) : \A j \in Ids(table) : i <= j
         IN  SelectWhere(table, {m}) \o OrderById(SelectWhere(table, Ids(table) \ {m}))

\* lower() on one character
UpperCase ==
    <<"A", "B", "C", "D", "E", "F", "G", "H", "I", "J", "K", "L", "M",
      "N", "O", "P", "Q", "R", "S", "T", "U", "V", "W", "X", "Y", "Z">>

LowerCase ==
    <<"a", "b", "c", "d", "e", "f", "g", "h", "i", "j", "k", "l", "m",
      "n", "o", "p", "q", "r", "s", "t", "u", "v", "w", "x", "y", "z">>

LowerChar(c) ==
    IF \E i \in 1..Len(UpperCase) : UpperCase[i] = c
    THEN LowerCase[CHOOSE i \in 1..Len(UpperCase) : UpperCase[i] = c]
    ELSE c

LowerText(t) == [i \in 1..Len(t) |-> LowerChar(t[i])]

\* SQL LIKE: % matches any run of characters, _ matches any one character
RECURSIVE Like(_, _)
Like(text, pattern) ==
    IF pattern = <<>> THEN text = <<>>
    ELSE IF Head(pattern) = "%"
         THEN Like(text, Tail(pattern))
              \/ (text # <<>> /\ Like(Tail(text), pattern))
         ELSE /\ text # <<>>
              /\ (Head(pattern) = "_" \/ Head(pattern) = Head(text))
              /\ Like(Tail(text), Tail(pattern))

\* column.ilike(pattern)
ilike(text, pattern) == Like(LowerText(text), LowerText(pattern))

\* Question.query.filter(Question.question.ilike('%' + search_term + '%')).all()
FilterSearch(table, search_term) ==
    SelectWhere(table,
        {table[i].id : i \in {j \in 1..Len(table) :
            ilike(table[j].question, <<"%">> \o search_term \o <<"%">>)}})

\* Question.query.filter(Question.category == category_id).all()
FilterCategory(table, category_id) ==
    SelectWhere(table,
        {table[i].id : i \in {j \in 1..Len(table) : table[j].category = category_id}})

\* .filter(Question.id.notin_(previous_questions))
FilterNotIn(table, previous_questions) ==
    SelectWhere(table,
        Ids(table) \ {previous_questions[i] : i \in 1..Len(previous_questions)})

(***************************************************************************)
(* Helpers of the module.                                                  *)
(***************************************************************************)
paginate_questions(page, selection) ==
    LET start     == (page - 1) * QUESTIONS_PER_PAGE
        end       == start + QUESTIONS_PER_PAGE
        formatted == [i \in 1..Len(selection) |-> format(selection[i])]
    IN  PySlice(formatted, start, end)

\* the ids of the rows of the category table
CategoryRowIds(rows) == {r.id : r \in rows}

read_categories(rows) ==
    [i \in CategoryRowIds(rows) |-> (CHOOSE r \in rows : r.id = i).type]

CategoryIds(selection) == [i \in 1..Len(selection) |-> selection[i].category]

Error(op, code) == [op |-> op, status |-> code, success |-> FALSE]

\* the rows of the category table
CategoryRows == {[id |-> 1, type |-> "Science"]}

\* the requests that run concurrently
Threads == {1, 2}

\* a thread that is not handling a request
Idle == [pc |-> "idle"]

Ready(t) == threads[t] = Idle

NoClient == [active |-> FALSE]

NoRequest == [op |-> "none"]

Init ==
    /\ questions = <<>>
    /\ categories = CategoryRows
    /\ nextId = 1
    /\ assigned = {}
    /\ deleted = {}
    /\ threads = [t \in Threads |-> Idle]
    /\ req = NoRequest
    /\ resp = NoRequest
    /\ client = NoClient

(***************************************************************************)
(* Request bodies.                                                         *)
(***************************************************************************)
EmptyBody == <<>>

PostBodies ==
    {[question |-> <<"A", "b">>, answer |-> <<"x">>, category |-> 1, difficulty |-> 2],
     [question |-> <<"a">>, answer |-> <<"x">>, category |-> 2, difficulty |-> 2],
     [question |-> <<>>, answer |-> <<"x">>, category |-> 1, difficulty |-> 2],
     [question |-> <<"a">>, answer |-> <<>>, category |-> 2, difficulty |-> 2]}

SearchBodies == {EmptyBody} \cup [searchTerm : SearchTerms]

\* previous_questions lists; notin_ only tests membership, so the lists are
\* taken in increasing order
PrevLists(maxId) ==
    {s \in UNION {[1..n -> 1..maxId] : n \in 0..MaxPrev} :
        \A i \in 1..(Len(s) - 1) : s[i] < s[i + 1]}

QuizCategories == {[type |-> "click"]} \cup [type : {"x"}, id : 0..2]

QuizBodiesOver(maxId) ==
    [previous_questions : PrevLists(maxId), quiz_category : QuizCategories]
    \cup {EmptyBody, [previous_questions |-> <<>>],
          [quiz_category |-> [type |-> "click"]]}

\* the quiz requests that run among the concurrent requests
QuizBodies == QuizBodiesOver(1)

(***************************************************************************)
(* Route handlers.  A handler runs in its own thread; every statement that *)
(* reads or writes the Question table is a step of its own, so the         *)
(* statements of concurrent requests interleave.  The Category table is    *)
(* never written, so reading it is part of the neighbouring step.          *)
(***************************************************************************)
\* thread t goes on to its next statement
Step(t, rec) ==
    /\ threads' = [threads EXCEPT ![t] = rec]
    /\ UNCHANGED <<req, resp>>

\* thread t answers its request
Done(t, request, response) ==
    /\ threads' = [threads EXCEPT ![t] = Idle]
    /\ req' = request
    /\ resp' = response

\* GET /categories
get_categories(t) ==
    /\ Ready(t)
    /\ Done(t, [op |-> "get_categories"],
                    [status |-> 200, success |-> TRUE,
                     categories |-> read_categories(categories)])
    /\ UNCHANGED <<questions, categories, nextId, assigned, deleted, client>>

\* GET /questions?page= : the ordered query (line 80), pagination, the
\* categories and the 404 for an empty page
get_questions(t, page) ==
    LET selection         == OrderById(questions)
        current_questions == paginate_questions(page, selection)
        request           == [op |-> "get_questions", page |-> page]
    IN  /\ Ready(t)
        /\ IF Len(current_questions) = 0
           THEN Done(t, request, Error("get_questions", 404))
           ELSE Step(t, [pc |-> "get_questions_count", req |-> request,
                         current_questions |-> current_questions,
                         category_ids |-> CategoryIds(selection),
                         categories |-> read_categories(categories)])
        /\ UNCHANGED <<questions, categories, nextId, assigned, deleted, client>>

\* GET /questions: the count query (line 96) and the response
get_questions_count(t) ==
    /\ threads[t].pc = "get_questions_count"
    /\ Done(t, threads[t].req,
                    [status |-> 200, success |-> TRUE,
                     questions |-> threads[t].current_questions,
                     currentCategory |-> threads[t].category_ids,
                     categories |-> threads[t].categories,
                     total_questions |-> Len(QueryAll(questions))])
    /\ UNCHANGED <<questions, categories, nextId, assigned, deleted, client>>

\* DELETE /questions/<question_id>: the lookup (lines 108-112)
delete_question(t, question_id, page) ==
    LET request == [op |-> "delete_question", question_id |-> question_id,
                    page |-> page]
    IN  /\ Ready(t)
        /\ IF question_id \notin Ids(questions)
           THEN Done(t, request, Error("delete_question", 404))
           ELSE Step(t, [pc |-> "delete_question_delete", req |-> request])
        /\ UNCHANGED <<questions, categories, nextId, assigned, deleted, client>>

\* DELETE: question.delete() (line 114)
delete_question_delete(t) ==
    /\ threads[t].pc = "delete_question_delete"
    /\ questions' = delete(questions, threads[t].req.question_id)
    /\ Step(t, [pc |-> "delete_question_select", req |-> threads[t].req])
    /\ UNCHANGED <<categories, nextId, assigned, deleted, client>>

\* DELETE: the ordered query and pagination (lines 115-116)
delete_question_select(t) ==
    /\ threads[t].pc = "delete_question_select"
    /\ Step(t, [pc |-> "delete_question_count", req |-> threads[t].req,
                current_questions |->
                    paginate_questions(threads[t].req.page, OrderById(questions))])
    /\ UNCHANGED <<questions, categories, nextId, assigned, deleted, client>>

\* DELETE: the count query (line 122) and the response
delete_question_count(t) ==
    /\ threads[t].pc = "delete_question_count"
    /\ Done(t, threads[t].req,
                    [status |-> 200, success |-> TRUE,
                     deleted |-> threads[t].req.question_id,
                     questions |-> threads[t].current_questions,
                     total_questions |-> Len(QueryAll(questions))])
    /\ deleted' = deleted \cup {threads[t].req.question_id}
    /\ UNCHANGED <<questions, categories, nextId, assigned, client>>

\* post_question rejecting only when both question and answer are empty
post_question_BothEmpty(t, body, page) ==
    LET request == [op |-> "post_question", body |-> body, page |-> page]
    IN  /\ Ready(t)
        /\ IF body.question = <<>> /\ body.answer = <<>>
           THEN /\ Done(t, request, Error("post_question", 422))
                /\ UNCHANGED <<questions, nextId, assigned>>
           ELSE /\ insert(body.question, body.answer, body.category, body.difficulty)
                /\ Step(t, [pc |-> "post_question_select", req |-> request,
                            id |-> questions'[Len(questions')].id])
        /\ UNCHANGED <<categories, deleted, client>>

\* POST /questions: the validation (lines 143-144) and question.insert()
\* (lines 146-148)
post_question(t, body, page) ==
    LET request == [op |-> "post_question", body |-> body, page |-> page]
    IN  /\ Ready(t)
        /\ IF body.question = <<>> \/ body.answer = <<>>
           THEN /\ Done(t, request, Error("post_question", 422))
                /\ UNCHANGED <<questions, nextId, assigned>>
           ELSE /\ insert(body.question, body.answer, body.category, body.difficulty)
                /\ Step(t, [pc |-> "post_question_select", req |-> request,
                            id |-> questions'[Len(questions')].id])
        /\ UNCHANGED <<categories, deleted, client>>

\* POST /questions: the ordered query and pagination (lines 151-152)
post_question_select(t) ==
    /\ threads[t].pc = "post_question_select"
    /\ Step(t, [pc |-> "post_question_count", req |-> threads[t].req,
                id |-> threads[t].id,
                current_questions |->
                    paginate_questions(threads[t].req.page, OrderById(questions))])
    /\ UNCHANGED <<questions, categories, nextId, assigned, deleted, client>>

\* POST /questions: the count query (line 158) and the response
post_question_count(t) ==
    /\ threads[t].pc = "post_question_count"
    /\ Done(t, threads[t].req,
                    [status |-> 200, success |-> TRUE,
                     created |-> threads[t].id,
                     questions |-> threads[t].current_questions,
                     total_questions |-> Len(QueryAll(questions))])
    /\ UNCHANGED <<questions, categories, nextId, assigned, deleted, client>>

\* POST /search: one query (lines 176-178)
search_question(t, body, page) ==
    /\ Ready(t)
    /\ Done(t, [op |-> "search_question", body |-> body, page |-> page],
            IF "searchTerm" \notin DOMAIN body \/ body.searchTerm = <<>>
            THEN Error("search_question", 422)
            ELSE LET selection == FilterSearch(questions, body.searchTerm)
                 IN  [status |-> 200, success |-> TRUE,
                      questions |-> paginate_questions(page, selection),
                      currentCategory |-> CategoryIds(selection),
                      total_questions |-> Len(selection)])
    /\ UNCHANGED <<questions, categories, nextId, assigned, deleted, client>>

\* get_by_category, first query: is category_id the category of some question?
GbcCheck(table, category_id) ==
    LET category_ids == CategoryIds(QueryAll(table))
    IN  \E i \in 1..Len(category_ids) : category_ids[i] = category_id

\* GET /categories/<category_id>/questions: the membership check (lines 199-203)
get_by_category(t, category_id, page) ==
    LET request == [op |-> "get_by_category", category_id |-> category_id,
                    page |-> page]
    IN  /\ Ready(t)
        /\ IF ~GbcCheck(questions, category_id)
           THEN Done(t, request, Error("get_by_category", 422))
           ELSE Step(t, [pc |-> "get_by_category_select", req |-> request])
        /\ UNCHANGED <<questions, categories, nextId, assigned, deleted, client>>

\* GET /categories/<category_id>/questions: the filtered query (lines 205-206)
\* and the response
get_by_category_select(t) ==
    /\ threads[t].pc = "get_by_category_select"
    /\ LET selection == FilterCategory(questions, threads[t].req.category_id)
       IN  Done(t, threads[t].req,
                        [status |-> 200, success |-> TRUE,
                         questions |->
                             paginate_questions(threads[t].req.page, selection),
                         currentCategory |-> threads[t].req.category_id,
                         total_questions |-> Len(selection)])
    /\ UNCHANGED <<questions, categories, nextId, assigned, deleted, client>>

\* the selector without the category filter
QuizResponses_AnyCategory(table, body) ==
    IF "previous_questions" \notin DOMAIN body \/ "quiz_category" \notin DOMAIN body
    THEN {Error("quiz", 422)}
    ELSE LET selection == FilterNotIn(QueryAll(table), body.previous_questions)
         IN  IF Len(selection) > 0
             THEN {[status |-> 200, success |-> TRUE,
                    question |-> format(selection[k])] : k \in 1..Len(selection)}
             ELSE {[status |-> 200, success |-> TRUE, question |-> Null]}

\* the selector without the previous_questions filter
QuizResponses_KeepPrevious(table, body) ==
    IF "previous_questions" \notin DOMAIN body \/ "quiz_category" \notin DOMAIN body
    THEN {Error("quiz", 422)}
    ELSE LET quiz_category_id == IF "id" \in DOMAIN body.quiz_category
                                 THEN body.quiz_category.id ELSE 0
             selection == IF quiz_category_id = 0
                          THEN QueryAll(table)
                          ELSE FilterCategory(table, quiz_category_id)
         IN  IF Len(selection) > 0
             THEN {[status |-> 200, success |-> TRUE,
                    question |-> format(selection[k])] : k \in 1..Len(selection)}
             ELSE {[status |-> 200, success |-> TRUE, question |-> Null]}

\* POST /quizzes: the responses the handler can give on this table
QuizResponses(table, body) ==
    IF "previous_questions" \notin DOMAIN body \/ "quiz_category" \notin DOMAIN body
    THEN {Error("quiz", 422)}
    ELSE LET previous_questions == body.previous_questions
             quiz_category      == body.quiz_category
             quiz_category_id   == IF "id" \in DOMAIN quiz_category
                                   THEN quiz_category.id ELSE 0
             selection == IF quiz_category_id = 0
                          THEN FilterNotIn(QueryAll(table), previous_questions)
                          ELSE FilterNotIn(FilterCategory(table, quiz_category_id),
                                           previous_questions)
         IN  IF Len(selection) > 0
             THEN {[status |-> 200, success |-> TRUE,
                    question |-> format(selection[k])] : k \in 1..Len(selection)}
             ELSE {[status |-> 200, success |-> TRUE, question |-> Null]}

\* quiz as a selector that removes the question it hands out
quiz_Consuming(t, body) ==
    /\ Ready(t)
    /\ \E r \in QuizResponses(questions, body) :
           /\ Done(t, [op |-> "quiz", body |-> body], r)
           /\ questions' = IF "question" \in DOMAIN r /\ r.question # Null
                           THEN delete(questions, r.question.id)
                           ELSE questions
    /\ UNCHANGED <<categories, nextId, assigned, deleted, client>>

\* POST /quizzes: one query (lines 239-244) and the random choice
quiz(t, body) ==
    /\ Ready(t)
    /\ \E r \in QuizResponses(questions, body) :
           Done(t, [op |-> "quiz", body |-> body], r)
    /\ UNCHANGED <<questions, categories, nextId, assigned, deleted, client>>

Next ==
    \E t \in Threads :
        \/ get_categories(t)
        \/ \E page \in PageArgs : get_questions(t, page)
        \/ get_questions_count(t)
        \/ \E question_id \in IdArgs, page \in DefaultPage :
               delete_question(t, question_id, page)
        \/ delete_question_delete(t)
        \/ delete_question_select(t)
        \/ delete_question_count(t)
        \/ \E body \in PostBodies, page \in DefaultPage : post_question(t, body, page)
        \/ post_question_select(t)
        \/ post_question_count(t)
        \/ \E body \in SearchBodies, page \in DefaultPage : search_question(t, body, page)
        \/ \E category_id \in 1..3, page \in DefaultPage :
               get_by_category(t, category_id, page)
        \/ get_by_category_select(t)
        \/ \E body \in QuizBodies : quiz(t, body)

Spec == Init /\ [][Next]_vars

(***************************************************************************)
(* The paginator on its own: any selection length, any page.               *)
(***************************************************************************)
SampleQuestion(i) ==
    [id |-> i, question |-> <<"a">>, answer |-> <<"x">>, category |-> 1,
     difficulty |-> 2]

SampleSelection(n) == [i \in 1..n |-> SampleQuestion(i)]

PaginatePages == (0 - MaxPage)..MaxPage

Paginate(n, page) ==
    /\ req' = [op |-> "paginate", n |-> n, page |-> page]
    /\ resp' = [questions |-> paginate_questions(page, SampleSelection(n))]
    /\ UNCHANGED <<questions, categories, nextId, assigned, deleted, threads, client>>

NextPaginate == \E n \in 0..MaxN, page \in PaginatePages : Paginate(n, page)

SpecPaginate == Init /\ [][NextPaginate]_vars

(***************************************************************************)
(* The quiz selector on any store content.                                 *)
(***************************************************************************)
QuizStores ==
    UNION {{[i \in 1..n |-> [id |-> i, question |-> <<"a">>, answer |-> <<"x">>,
                             category |-> c[i], difficulty |-> 2]] :
            c \in [1..n -> CategoryArgs]} : n \in 0..MaxQuizQ}

InitStore ==
    /\ questions \in QuizStores
    /\ categories = CategoryRows
    /\ nextId = Len(questions) + 1
    /\ assigned = 1..Len(questions)
    /\ deleted = {}
    /\ threads = [t \in Threads |-> Idle]
    /\ req = NoRequest
    /\ resp = NoRequest

InitSelect == InitStore /\ client = NoClient

SelectBodies == QuizBodiesOver(MaxQuizQ)

NextSelect == \E body \in SelectBodies : quiz(1, body)

SpecSelect == InitSelect /\ [][NextSelect]_vars

(***************************************************************************)
(* A quiz client on an unchanging store: it starts with an empty           *)
(* previous_questions and appends the id of every question it receives.    *)
(***************************************************************************)
InitQuiz ==
    /\ InitStore
    /\ client \in [active : {TRUE}, quiz_category : QuizCategories,
                   previous_questions : {<<>>}, finished : {FALSE}]

ClientBody ==
    [previous_questions |-> client.previous_questions,
     quiz_category |-> client.quiz_category]

ClientPlay ==
    /\ client.active
    /\ req' = [op |-> "quiz", body |-> ClientBody]
    /\ resp' \in QuizResponses(questions, ClientBody)
    /\ client' = IF resp'.question = Null
                 THEN [client EXCEPT !.finished = TRUE]
                 ELSE [client EXCEPT !.previous_questions =
                                          Append(@, resp'.question.id)]
    /\ UNCHANGED <<questions, categories, nextId, assigned, deleted, threads>>

NextQuiz == ClientPlay

SpecQuiz == InitQuiz /\ [][NextQuiz]_vars

(***************************************************************************)
(* Properties.                                                             *)
(***************************************************************************)
\* positions of the stored questions a quiz request may be answered with
QuizCandidates(body) ==
    LET cid  == IF "id" \in DOMAIN body.quiz_category THEN body.quiz_category.id ELSE 0
        prev == {body.previous_questions[i] : i \in 1..Len(body.previous_questions)}
    IN  {i \in 1..Len(questions) :
            /\ questions[i].id \notin prev
            /\ (cid # 0 => questions[i].category = cid)}

\* term occurs in text as a substring, ignoring letter case
Contains(text, term) ==
    \E off \in 0..(Len(text) - Len(term)) :
        \A k \in 1..Len(term) : LowerChar(text[off + k]) = LowerChar(term[k])

\* the ids a response lists
Listed(r) ==
    IF "questions" \in DOMAIN r THEN Ids(r.questions)
    ELSE IF "question" \in DOMAIN r /\ r.question # Null THEN {r.question.id}
    ELSE {}

ReadOps == {"get_categories", "get_questions", "search_question",
            "get_by_category", "quiz"}

\* this step answers a request: req' and resp' are the request and its response
Answers ==
    \/ \E t \in Threads : threads[t] # Idle /\ threads'[t] = Idle
    \/ threads' = threads /\ <<req, resp>>' # <<req, resp>>

\* the operation of the request this step belongs to
StepOp ==
    IF threads' = threads THEN req'.op
    ELSE LET t == CHOOSE u \in Threads : threads'[u] # threads[u]
         IN  IF threads'[t] # Idle THEN threads'[t].req.op ELSE threads[t].req.op

\* C1: paginate_questions returns min(10, max(0, N - 10*(p-1))) questions for
\* a page p >= 1 and the empty list for every page p <= 0.
C1_PaginateLength ==
    req.op = "paginate" =>
        Len(resp.questions) =
            IF req.page <= 0 THEN 0
            ELSE Min(10, Max(0, req.n - 10 * (req.page - 1)))

\* C2: a POST /quizzes that passes validation returns null exactly when no
\* stored question is outside previous_questions (and in the requested
\* category when its id is not 0, a missing id counting as 0); otherwise it
\* returns one of those stored questions.
C2_QuizSelection ==
    (req.op = "quiz" /\ resp.status = 200) =>
        LET cand == QuizCandidates(req.body)
        IN  /\ resp.question = Null <=> cand = {}
            /\ resp.question # Null =>
                   \E i \in cand :
                       /\ resp.question.id = questions[i].id
                       /\ resp.question.category = questions[i].category
                       /\ resp.question.question = questions[i].question
                       /\ resp.question.answer = questions[i].answer

C2_Witness ==
    /\ req.op = "quiz"
    /\ resp.status = 200
    /\ resp.question # Null
    /\ "id" \in DOMAIN req.body.quiz_category
    /\ req.body.quiz_category.id = 1
    /\ \E i \in 1..Len(questions) : questions[i].category = 2
    /\ \E i \in 1..Len(questions), k \in 1..Len(req.body.previous_questions) :
           /\ questions[i].category = 1
           /\ questions[i].id = req.body.previous_questions[k]

\* C3: DELETE /questions/{id} answers 404 and leaves the store unchanged when
\* no question has the id; otherwise it succeeds and removes exactly that
\* record, every other question staying as it was, and an id whose delete
\* has succeeded is in no listing answered afterwards.
C3_DeleteStep ==
    /\ \A t \in Threads :
           (threads[t] = Idle /\ threads'[t] # threads[t]
            /\ threads'[t].req.op = "delete_question") =>
               threads'[t].req.question_id \in Ids(questions)
    /\ (Answers /\ req'.op = "delete_question" /\ resp'.status = 404) =>
           /\ req'.question_id \notin Ids(questions)
           /\ questions' = questions
    /\ \A t \in Threads :
           (threads[t].pc = "delete_question_delete" /\ threads'[t] # threads[t]) =>
               LET id == threads[t].req.question_id
               IN  /\ Len(questions') = Len(questions) - 1
                   /\ id \notin Ids(questions')
                   /\ \A i \in 1..Len(questions) :
                          questions[i].id # id =>
                              \E j \in 1..Len(questions') : questions'[j] = questions[i]
    /\ (Answers /\ req'.op = "delete_question" /\ resp'.status = 200) =>
           resp'.deleted = req'.question_id
    /\ Answers => Listed(resp') \cap deleted = {}

C3_Delete == [][C3_DeleteStep]_vars

\* C4: a successful POST /questions adds exactly one record, the new question
\* is exactly once in the id-ordered list, and the id in 'created' is the id
\* of that record and was never assigned before, deleted questions included.
C4_PostStep ==
    /\ \A t \in Threads :
           (threads[t] = Idle /\ threads'[t] # threads[t]
            /\ threads'[t].req.op = "post_question") =>
               LET body    == threads'[t].req.body
                   created == threads'[t].id
                   ordered == OrderById(questions')
                   at      == {i \in 1..Len(ordered) : ordered[i].id = created}
               IN  /\ body.question # <<>> /\ body.answer # <<>>
                   /\ created \notin assigned
                   /\ Len(questions') = Len(questions) + 1
                   /\ Ids(questions') = Ids(questions) \cup {created}
                   /\ Cardinality(at) = 1
                   /\ \A i \in at :
                          /\ ordered[i].question = body.question
                          /\ ordered[i].answer = body.answer
                          /\ ordered[i].category = body.category
                          /\ ordered[i].difficulty = body.difficulty
                   /\ \A i \in 1..Len(questions) :
                          \E j \in 1..Len(questions') : questions'[j] = questions[i]
    /\ \A t \in Threads :
           (threads[t].pc \in {"post_question_select", "post_question_count"}
            /\ threads'[t] # threads[t]) => questions' = questions
    /\ (Answers /\ req'.op = "post_question" /\ resp'.status = 200) =>
           \E t \in Threads :
               /\ threads[t].pc = "post_question_count"
               /\ threads'[t] = Idle
               /\ resp'.created = threads[t].id

C4_Insert == [][C4_PostStep]_vars

C4_Witness ==
    /\ req.op = "post_question"
    /\ resp.status = 200
    /\ deleted # {}
    /\ resp.created = 2
    /\ Len(questions) = 1

\* C5: POST /questions with an empty question or answer returns 422 and
\* inserts nothing.
C5_PostStep ==
    (Answers /\ req'.op = "post_question"
     /\ (req'.body.question = <<>> \/ req'.body.answer = <<>>)) =>
        /\ resp'.status = 422
        /\ questions' = questions
        /\ assigned' = assigned

C5_NoneInFlight ==
    \A t \in Threads :
        (threads[t] # Idle /\ threads[t].req.op = "post_question") =>
            threads[t].req.body.question # <<>> /\ threads[t].req.body.answer # <<>>

C5_EmptyRejected == []C5_NoneInFlight /\ [][C5_PostStep]_vars

C5_Witness ==
    /\ req.op = "post_question"
    /\ req.body.question # <<>>
    /\ req.body.answer = <<>>
    /\ resp.status = 422
    /\ questions # <<>>

\* C6: GET /categories/{id}/questions returns 422 exactly when no stored
\* question has that category, whatever the category table holds; otherwise
\* it succeeds with currentCategory = id, total_questions the number of
\* questions of the category, and only questions of the category.
C6_AnswerStep ==
    (Answers /\ req'.op = "get_by_category") =>
        LET c       == req'.category_id
            matches == {i \in 1..Len(questions) : questions[i].category = c}
        IN  /\ resp'.status = 422 <=> matches = {}
            /\ matches # {} =>
                   /\ resp'.status = 200
                   /\ resp'.currentCategory = c
                   /\ resp'.total_questions = Cardinality(matches)
                   /\ \A k \in 1..Len(resp'.questions) : resp'.questions[k].category = c

C6_ByCategory == [][C6_AnswerStep]_vars

\* C7: POST /search returns 422 when searchTerm is missing or empty; otherwise
\* it succeeds, total_questions is the number of stored questions whose text
\* contains searchTerm ignoring case, and the questions returned are the
\* requested page of exactly those.
C7_AnswerStep ==
    (Answers /\ req'.op = "search_question") =>
        IF "searchTerm" \notin DOMAIN req'.body \/ req'.body.searchTerm = <<>>
        THEN resp'.status = 422
        ELSE LET matches == {questions[i].id : i \in {j \in 1..Len(questions) :
                                 Contains(questions[j].question, req'.body.searchTerm)}}
             IN  /\ resp'.status = 200
                 /\ resp'.total_questions = Cardinality(matches)
                 /\ resp'.questions =
                        paginate_questions(req'.page, SelectWhere(questions, matches))

C7_Search == [][C7_AnswerStep]_vars

\* C8: the read operations leave the question table and the category table
\* unchanged whatever their outcome, and no operation changes the category
\* table.
C8_ReadStep ==
    /\ categories' = categories
    /\ StepOp \in ReadOps => questions' = questions

C8_Frame == [][C8_ReadStep]_vars

C8_Witness ==
    /\ req.op = "quiz"
    /\ resp.status = 200
    /\ resp.question # Null
    /\ Len(questions) >= 2
    /\ \E t \in Threads : threads[t] # Idle /\ threads[t].req.op = "get_questions"

\* C9: with concurrent requests, a successful GET /categories/{id}/questions
\* reports at least one question.
C9_NonEmptySuccess ==
    (req.op = "get_by_category" /\ resp.status = 200) => resp.total_questions >= 1

\* C10: on an unchanging store, a client that starts from an empty
\* previous_questions and appends every returned id never gets a question
\* twice, gets null after exactly K questions, K the number of questions of
\* the chosen category (all of them for id 0), and gets null ever after.
QuizK ==
    LET cid == IF "id" \in DOMAIN client.quiz_category
               THEN client.quiz_category.id ELSE 0
    IN  Cardinality({i \in 1..Len(questions) :
                        cid = 0 \/ questions[i].category = cid})

C10_ClientState ==
    LET prev == client.previous_questions
    IN  /\ \A i, j \in 1..Len(prev) : prev[i] = prev[j] => i = j
        /\ Len(prev) <= QuizK
        /\ client.finished => Len(prev) = QuizK

C10_ClientStep ==
    /\ Len(client.previous_questions) < QuizK => resp'.question # Null
    /\ Len(client.previous_questions) = QuizK => resp'.question = Null
    /\ client.finished => resp'.question = Null /\ client'.finished

C10_Exhaustion == [](client.active => C10_ClientState) /\ [][C10_ClientStep]_vars

C10_Witness ==
    /\ client.active
    /\ client.finished
    /\ "id" \in DOMAIN client.quiz_category
    /\ client.quiz_category.id = 1
    /\ Len(client.previous_questions) = 2
    /\ Len(questions) = 3

====
